---- MODULE Spec2Model ----
(***************************************************************************)
(* The n-Chain environments of                                             *)
(* ray-rllib/05-Custom-Environments-Reward-Shaping.ipynb.                   *)
(*                                                                         *)
(* Two classes are defined by the notebook:                                *)
(*   ChainEnv        the class of the Exercise 1 cell (lines 266-310);     *)
(*   ShapedChainEnv  the class of the Exercise 2 cell (lines 413-426). Its *)
(*                   base is the name ChainEnv as bound when that cell     *)
(*                   runs, which is the class imported by the cell at line *)
(*                   334 (from chain_env import ChainEnv), the reference   *)
(*                   implementation of Exercise 1.                         *)
(* One environment object `self` is modelled, together with the last call  *)
(* made on it and what that call gave back (specification Spec).           *)
(*                                                                         *)
(* The cells of ray-crash-course/04-Ray-Multiprocessing.ipynb that create  *)
(* the async actor, run its tasks, and talk to the policy server are       *)
(* modelled as a kernel running the cells top to bottom (specifications    *)
(* NotebookSpec and FairNotebookSpec).                                     *)
(*                                                                         *)
(* The rollout loop of the reward-shaping notebook (lines 368-382) runs    *)
(* one episode of the imported chain_env.ChainEnv (specification           *)
(* RolloutSpec).                                                           *)
(***************************************************************************)
EXTENDS Integers, FiniteSets, Sequences, TLC

\* ---- bounds of the model ------------------------------------------------
\* largest chain length given explicitly in env_config
MaxN == 4
\* number of step calls made after the counter has reached the horizon
MaxOverrun == 2

\* ---- defaults of env_config.get ------------------------------------------
DefaultN == 20
DefaultSmall == 2
DefaultLarge == 10

\* a key that env_config does not hold
Missing == -1

\* the classes an environment can be constructed from
Classes == {"ChainEnv", "ShapedChainEnv"}

\* env_config: each key is present with a value or missing
Configs ==
    [n : (1..MaxN) \cup {Missing}, small : {Missing, 1}, large : {Missing, 5}]

\* arguments handed to step: 0 and 1 are the two actions, the others are not
\* members of Discrete(2)
ActionArgs == {-1, 0, 1, 2}

\* ---- gym spaces ----------------------------------------------------------
\* Python's None
None == [kind |-> "None", n |-> 0]

\* spaces.Discrete(k): the integers 0 .. k-1
Discrete(k) == [kind |-> "Discrete", n |-> k]

\* Discrete.contains(x)
contains(space, x) == x >= 0 /\ x < space.n

\* the set of members of a space
Members(space) == {x \in -1..(space.n + 1) : contains(space, x)}

\* dict.get(key, default)
get(value, default) == IF value = Missing THEN default ELSE value

VARIABLES
    config,     \* the dictionary the environment was constructed from
    self,       \* the environment object
    last,       \* the last call made on it: operation, argument, pre-state, outcome
    k,          \* number of step calls that returned since the last reset
    ep_done,    \* the done flag of the last step that returned since the last reset
    overrun,    \* a step call returned after done was returned, with no reset since
    only0,      \* every step that returned since the last reset had action 0
    twin,       \* a ChainEnv of the same configuration, given the same calls
    twin_ret    \* what the last call gave back on twin

envvars == <<config, self, last, k, ep_done, overrun, only0, twin, twin_ret>>

VARIABLES
    cell,            \* the cell of the notebook the kernel runs next
    max_concurrency, \* of the actor bound to `actor`; 0 while there is none
    submitted,       \* number of run_task invocations submitted to the actor
    task,            \* the state of each run_task invocation
    defined,         \* the names bound in the kernel
    errors,          \* what each cell that was run raised
    episodes,        \* the logged episodes: the number of steps of each
    calls            \* the calls made on the policy client, in order

nbvars == <<cell, max_concurrency, submitted, task, defined, errors, episodes,
            calls>>

VARIABLE
    rollout     \* the names of the rollout cell: env, state, done, max_state,
                \* cumulative_reward; whether the loop has been left; the
                \* number of times the policy gave action 1

vars == <<envvars, nbvars, rollout>>

\* ---- ChainEnv -------------------------------------------------------------
\* ChainEnv._setup_spaces as the Exercise 1 cell has it
ChainEnv_setup_spaces(s) ==
    [s EXCEPT !.action_space = None, !.observation_space = None]

\* _setup_spaces of the imported chain_env.ChainEnv, the base of ShapedChainEnv
chain_env_setup_spaces(s) ==
    [s EXCEPT !.action_space = Discrete(2), !.observation_space = Discrete(s.n)]

\* __init__ with the horizon written as the number 20 instead of self.n
ChainEnv_init_fixedhorizon(cls, env_config) ==
    LET s == [cls               |-> cls,
              n                 |-> get(env_config.n, DefaultN),
              small_reward      |-> get(env_config.small, DefaultSmall),
              large_reward      |-> get(env_config.large, DefaultLarge),
              state             |-> 0,
              _horizon          |-> 20,
              _counter          |-> 0,
              action_space      |-> None,
              observation_space |-> None]
    IN  IF cls = "ChainEnv" THEN ChainEnv_setup_spaces(s)
                            ELSE chain_env_setup_spaces(s)

\* ChainEnv.__init__(env_config); cls selects the _setup_spaces that
\* self._setup_spaces() resolves to
ChainEnv_init(cls, env_config) ==
    LET s == [cls               |-> cls,
              n                 |-> get(env_config.n, DefaultN),
              small_reward      |-> get(env_config.small, DefaultSmall),
              large_reward      |-> get(env_config.large, DefaultLarge),
              state             |-> 0,
              _horizon          |-> get(env_config.n, DefaultN),
              _counter          |-> 0,
              action_space      |-> None,
              observation_space |-> None]
    IN  IF cls = "ChainEnv" THEN ChainEnv_setup_spaces(s)
                            ELSE chain_env_setup_spaces(s)

\* what a call gives back
Returned(obs, reward, done) ==
    [outcome |-> "returned", obs |-> obs, reward |-> reward, done |-> done]

Raised(error) ==
    [outcome |-> error, obs |-> 0, reward |-> 0, done |-> FALSE]

\* assert self.action_space.contains(action): the error it raises, or "ok"
assert_contains(s, action) ==
    IF s.action_space = None THEN "AttributeError"
    ELSE IF ~contains(s.action_space, action) THEN "AssertionError"
    ELSE "ok"

\* ChainEnv.step(action): the object after the call and what the call gave
ChainEnv_step(s, action) ==
    IF assert_contains(s, action) # "ok"
    THEN [self |-> s, ret |-> Raised(assert_contains(s, action))]
    ELSE LET reward == -1
             s1 == IF action = 1 THEN [s EXCEPT !.state = 0]
                   ELSE IF s.state < s.n - 1 THEN [s EXCEPT !.state = @ + 1]
                   ELSE s
             s2 == [s1 EXCEPT !._counter = @ + 1]
             done == s2._counter >= s2._horizon
         IN  [self |-> s2, ret |-> Returned(s2.state, reward, done)]

\* ---- variants of ShapedChainEnv.step, each with one slip ------------------
\* the step of lines 413-426 with one of: the end of the chain tested one cell
\* too late, done tested with > or with == for >=, the assert left out, the
\* counter incremented in the forwards branch as well as after the branches,
\* the counter not incremented at the end of the chain, the counter
\* incremented inside the backwards branch only
step_variant(s, action, slip) ==
    IF slip # "noassert" /\ assert_contains(s, action) # "ok"
    THEN [self |-> s, ret |-> Raised(assert_contains(s, action))]
    ELSE LET reward == -1
             limit == IF slip = "offbyone" THEN s.n ELSE s.n - 1
             s1 == IF action = 1 THEN [s EXCEPT !.state = 0]
                   ELSE IF s.state < limit
                        THEN [s EXCEPT !.state = @ + 1,
                                       !._counter = IF slip = "doublecount"
                                                    THEN @ + 1 ELSE @]
                   ELSE s
             counted == CASE slip = "nocountatend" ->
                                 action = 1 \/ s.state < limit
                          [] slip = "countretreatonly" -> action = 1
                          [] OTHER -> TRUE
             s2 == IF counted THEN [s1 EXCEPT !._counter = @ + 1] ELSE s1
             done == CASE slip = "strictdone" -> s2._counter > s2._horizon
                       [] slip = "eqdone" -> s2._counter = s2._horizon
                       [] OTHER -> s2._counter >= s2._horizon
         IN  [self |-> s2, ret |-> Returned(s2.state, reward, done)]

ShapedChainEnv_step_offbyone(s, action) == step_variant(s, action, "offbyone")

ShapedChainEnv_step_strictdone(s, action) == step_variant(s, action, "strictdone")

ShapedChainEnv_step_noassert(s, action) == step_variant(s, action, "noassert")

ShapedChainEnv_step_doublecount(s, action) == step_variant(s, action, "doublecount")

ShapedChainEnv_step_nocountatend(s, action) == step_variant(s, action, "nocountatend")

ShapedChainEnv_step_countretreatonly(s, action) ==
    step_variant(s, action, "countretreatonly")

ShapedChainEnv_step_eqdone(s, action) == step_variant(s, action, "eqdone")

\* ShapedChainEnv.step(action)
ShapedChainEnv_step(s, action) ==
    IF assert_contains(s, action) # "ok"
    THEN [self |-> s, ret |-> Raised(assert_contains(s, action))]
    ELSE LET reward == -1
             s1 == IF action = 1 THEN [s EXCEPT !.state = 0]
                   ELSE IF s.state < s.n - 1 THEN [s EXCEPT !.state = @ + 1]
                   ELSE s
             s2 == [s1 EXCEPT !._counter = @ + 1]
             done == s2._counter >= s2._horizon
         IN  [self |-> s2, ret |-> Returned(s2.state, reward, done)]

\* reset that forgets the step counter
ChainEnv_reset_keepcounter(s) ==
    LET s2 == [s EXCEPT !.state = 0]
    IN  [self |-> s2, ret |-> Returned(s2.state, 0, FALSE)]

\* reset that forgets the position
ChainEnv_reset_keepstate(s) ==
    LET s2 == [s EXCEPT !._counter = 0]
    IN  [self |-> s2, ret |-> Returned(s2.state, 0, FALSE)]

\* ChainEnv.reset(), inherited by ShapedChainEnv
ChainEnv_reset(s) ==
    LET s2 == [s EXCEPT !.state = 0, !._counter = 0]
    IN  [self |-> s2, ret |-> Returned(s2.state, 0, FALSE)]

\* method resolution of env.step
step(s, action) ==
    IF s.cls = "ShapedChainEnv" THEN ShapedChainEnv_step(s, action)
                                ELSE ChainEnv_step(s, action)

\* ---- the kernel of 04-Ray-Multiprocessing.ipynb ----------------------------
\* ray.get([actor.run_task.remote() for _ in range(10)])
NumTasks == 10

\* max_concurrency of an actor created without options
DefaultMaxConcurrency == 1000

\* AsyncActor.options(max_concurrency=3)
ActorMaxConcurrency == 3

Tasks == 1..NumTasks

\* the cells that are modelled, in the order of the notebook
Cells == <<"create_actor", "ray_get", "def_run_one_episode", "ten_episodes",
           "load_episodes", "replay", "end">>

\* the cell after c
NextCell(c) == Cells[(CHOOSE i \in 1..Len(Cells) : Cells[i] = c) + 1]

\* the data sets the episodes are loaded from: the steps of each episode
EpisodeLogs == {<<1>>, <<2, 1>>}

\* the kernel before any of the cells was run
KernelInit ==
    /\ cell = "create_actor"
    /\ max_concurrency = 0
    /\ submitted = 0
    /\ task = [i \in Tasks |-> "none"]
    /\ defined = {"client", "env"}
    /\ errors = [c \in {} |-> "none"]
    /\ episodes = <<>>
    /\ calls = <<>>

\* the invocations between their 'started' and 'ended' prints
Running == {i \in Tasks : task[i] = "started"}

\* ---- the rollout of one episode (lines 368-382) ---------------------------
\* step of the imported chain_env.ChainEnv: the transitions of ChainEnv.step
\* with the rewards the exercise asks for
chain_env_step(s, action) ==
    IF assert_contains(s, action) # "ok"
    THEN [self |-> s, ret |-> Raised(assert_contains(s, action))]
    ELSE LET reward == IF action = 1 THEN s.small_reward
                       ELSE IF s.state < s.n - 1 THEN 0
                       ELSE s.large_reward
             s1 == IF action = 1 THEN [s EXCEPT !.state = 0]
                   ELSE IF s.state < s.n - 1 THEN [s EXCEPT !.state = @ + 1]
                   ELSE s
             s2 == [s1 EXCEPT !._counter = @ + 1]
             done == s2._counter >= s2._horizon
         IN  [self |-> s2, ret |-> Returned(s2.state, reward, done)]

\* Python's max of two integers
max(a, b) == IF a >= b THEN a ELSE b

\* the actions trainer.compute_action can give: the members of the action space
PolicyActions == {0, 1}

\* env = ChainEnv({}); state = env.reset(); done = False; max_state = -1;
\* cumulative_reward = 0
RolloutInit ==
    rollout =
        LET e == ChainEnv_init("chain_env.ChainEnv",
                               [n |-> Missing, small |-> Missing, large |-> Missing])
        IN  [env               |-> ChainEnv_reset(e).self,
             state             |-> ChainEnv_reset(e).ret.obs,
             done              |-> FALSE,
             max_state         |-> -1,
             cumulative_reward |-> 0,
             left              |-> FALSE,
             retreats          |-> 0]

\* the body of the loop with cumulative_reward assigned instead of added to
loop_body_overwrite(r, action) ==
    LET res == chain_env_step(r.env, action)
    IN  [r EXCEPT !.env = res.self,
                  !.state = res.ret.obs,
                  !.done = res.ret.done,
                  !.max_state = max(r.max_state, res.ret.obs),
                  !.cumulative_reward = res.ret.reward]

\* the body of the while loop, for the action the policy gave
loop_body(r, action) ==
    LET res == chain_env_step(r.env, action)
    IN  [r EXCEPT !.env = res.self,
                  !.state = res.ret.obs,
                  !.done = res.ret.done,
                  !.max_state = max(r.max_state, res.ret.obs),
                  !.cumulative_reward = r.cumulative_reward + res.ret.reward]

\* one iteration of: while not done
RolloutStep ==
    /\ ~rollout.left
    /\ ~rollout.done
    /\ \E action \in PolicyActions :
           rollout' = [loop_body(rollout, action) EXCEPT !.retreats = @ + action]
    /\ UNCHANGED <<envvars, nbvars>>

\* done is true: the loop is left and the two lines are printed
RolloutPrint ==
    /\ ~rollout.left
    /\ rollout.done
    /\ rollout' = [rollout EXCEPT !.left = TRUE]
    /\ UNCHANGED <<envvars, nbvars>>

RolloutNext == RolloutStep \/ RolloutPrint

\* ---- the state machine ----------------------------------------------------
\* the record of a call: what was called, with what, on which state
Call(op, action, s, ret) ==
    [op |-> op, action |-> action, pre_state |-> s.state,
     pre_counter |-> s._counter, ret |-> ret]

\* env = cls(env_config)
Init ==
    \E cls \in Classes, cfg \in Configs :
        /\ config = cfg
        /\ self = ChainEnv_init(cls, cfg)
        /\ last = Call("init", 0, ChainEnv_init(cls, cfg), Raised("none"))
        /\ k = 0
        /\ ep_done = FALSE
        /\ overrun = FALSE
        /\ only0 = TRUE
        /\ twin = ChainEnv_init("ChainEnv", cfg)
        /\ twin_ret = Raised("none")
        /\ KernelInit
        /\ RolloutInit

\* env.step(action)
Step ==
    \E action \in ActionArgs :
        /\ self._counter < self._horizon + MaxOverrun
        /\ self' = step(self, action).self
        /\ last' = Call("step", action, self, step(self, action).ret)
        /\ IF step(self, action).ret.outcome = "returned"
           THEN /\ k' = k + 1
                /\ ep_done' = step(self, action).ret.done
                /\ overrun' = (overrun \/ ep_done)
                /\ only0' = (only0 /\ action = 0)
           ELSE UNCHANGED <<k, ep_done, overrun, only0>>
        /\ twin' = ChainEnv_step(twin, action).self
        /\ twin_ret' = ChainEnv_step(twin, action).ret
        /\ UNCHANGED <<config, nbvars, rollout>>

\* env.reset()
Reset ==
    /\ self' = ChainEnv_reset(self).self
    /\ last' = Call("reset", 0, self, ChainEnv_reset(self).ret)
    /\ k' = 0
    /\ ep_done' = FALSE
    /\ overrun' = FALSE
    /\ only0' = TRUE
    /\ twin' = ChainEnv_reset(twin).self
    /\ twin_ret' = ChainEnv_reset(twin).ret
    /\ UNCHANGED <<config, nbvars, rollout>>

Next == Step \/ Reset

Spec == Init /\ [][Next]_vars

\* ---- the cells of 04-Ray-Multiprocessing.ipynb ----------------------------
\* the cell finished, with the error it raised if any
Finish(c, error) ==
    /\ cell' = NextCell(c)
    /\ errors' = IF error = "none" THEN errors
                 ELSE [x \in DOMAIN errors \cup {c} |->
                          IF x = c THEN error ELSE errors[x]]

\* actor = AsyncActor.options(max_concurrency=3).remote()
CreateActor ==
    /\ cell = "create_actor"
    /\ max_concurrency' = ActorMaxConcurrency
    /\ defined' = defined \cup {"actor"}
    /\ Finish("create_actor", "none")
    /\ UNCHANGED <<submitted, task, episodes, calls, envvars, rollout>>

\* actor.run_task.remote(), one of the ten of the list comprehension
Submit ==
    /\ cell = "ray_get"
    /\ submitted < NumTasks
    /\ submitted' = submitted + 1
    /\ task' = [task EXCEPT ![submitted + 1] = "queued"]
    /\ UNCHANGED <<cell, max_concurrency, defined, errors, episodes, calls,
                   envvars, rollout>>

\* AsyncActor.run_task up to its await: print("started"). The actor begins an
\* invocation only while fewer than max_concurrency are running.
run_task_started(i) ==
    /\ task[i] = "queued"
    /\ Cardinality(Running) < max_concurrency
    /\ task' = [task EXCEPT ![i] = "started"]
    /\ UNCHANGED <<cell, max_concurrency, submitted, defined, errors, episodes,
                   calls, envvars, rollout>>

\* AsyncActor.run_task after asyncio.sleep(1): print("ended")
run_task_ended(i) ==
    /\ task[i] = "started"
    /\ task' = [task EXCEPT ![i] = "ended"]
    /\ UNCHANGED <<cell, max_concurrency, submitted, defined, errors, episodes,
                   calls, envvars, rollout>>

\* ray.get returns once every invocation of the list has finished
RayGetReturns ==
    /\ cell = "ray_get"
    /\ submitted = NumTasks
    /\ \A i \in Tasks : task[i] = "ended"
    /\ Finish("ray_get", "none")
    /\ UNCHANGED <<max_concurrency, submitted, task, defined, episodes, calls,
                   envvars, rollout>>

\* the cell of lines 570-584: its source holds the placeholder ???, so the
\* kernel rejects the whole cell when compiling it: run_one_episode is not
\* bound and the call of line 584 is not made
DefineRunOneEpisode ==
    /\ cell = "def_run_one_episode"
    /\ Finish("def_run_one_episode", "SyntaxError")
    /\ UNCHANGED <<max_concurrency, submitted, task, defined, episodes, calls,
                   envvars, rollout>>

\* for _ in range(10): run_one_episode(env)
TenEpisodes ==
    /\ cell = "ten_episodes"
    /\ "run_one_episode" \notin defined
    /\ Finish("ten_episodes", "NameError")
    /\ UNCHANGED <<max_concurrency, submitted, task, defined, episodes, calls,
                   envvars, rollout>>

\* the cell of lines 678-684: episodes is the list of the logged episodes
LoadEpisodes ==
    /\ cell = "load_episodes"
    /\ \E log \in EpisodeLogs : episodes' = log
    /\ defined' = defined \cup {"episodes"}
    /\ Finish("load_episodes", "none")
    /\ UNCHANGED <<max_concurrency, submitted, task, calls, envvars, rollout>>

\* the cell of lines 703-711: its source holds the placeholder ???, so the
\* kernel rejects the whole cell when compiling it: steps is not bound and no
\* call is made on the client
Replay ==
    /\ cell = "replay"
    /\ Finish("replay", "SyntaxError")
    /\ UNCHANGED <<max_concurrency, submitted, task, defined, episodes, calls,
                   envvars, rollout>>

NotebookInit ==
    /\ KernelInit
    /\ RolloutInit
    /\ config = [n |-> Missing, small |-> Missing, large |-> Missing]
    /\ self = ChainEnv_init("ChainEnv", config)
    /\ last = Call("init", 0, self, Raised("none"))
    /\ k = 0
    /\ ep_done = FALSE
    /\ overrun = FALSE
    /\ only0 = TRUE
    /\ twin = self
    /\ twin_ret = Raised("none")

NotebookNext ==
    \/ CreateActor
    \/ Submit
    \/ \E i \in Tasks : run_task_started(i)
    \/ \E i \in Tasks : run_task_ended(i)
    \/ RayGetReturns
    \/ DefineRunOneEpisode
    \/ TenEpisodes
    \/ LoadEpisodes
    \/ Replay

NotebookSpec == NotebookInit /\ [][NotebookNext]_vars

\* the driver keeps submitting and the actor's event loop keeps running the
\* invocations it holds
FairNotebookSpec ==
    /\ NotebookSpec
    /\ WF_vars(Submit)
    /\ \A i \in Tasks : WF_vars(run_task_started(i)) /\ WF_vars(run_task_ended(i))

\* one episode of the reference environment under any policy
RolloutSpec == NotebookInit /\ [][RolloutNext]_vars

\* ---- properties -----------------------------------------------------------
StepReturned == last.op = "step" /\ last.ret.outcome = "returned"

\* C1: for every chain length n >= 1 and after any sequence of reset and step
\* calls (steps after termination included) the position is in 0 .. n-1, and
\* so is every observation that reset or step returned.
C1_PositionInRange ==
    /\ self.state \in 0..(self.n - 1)
    /\ (last.op \in {"step", "reset"} /\ last.ret.outcome = "returned")
           => last.ret.obs \in 0..(self.n - 1)

\* a step taken after termination returned the last cell of a chain of
\* several cells
C1_Witness ==
    /\ StepReturned
    /\ self.n > 1
    /\ last.ret.obs = self.n - 1
    /\ last.pre_counter >= self._horizon

\* C2: the done flag returned by the k-th step call after a reset is false
\* for every k < n and true for k = n, whatever the actions were.
C2_DoneExactlyAtHorizon ==
    StepReturned =>
        /\ k < self.n => ~last.ret.done
        /\ k = self.n => last.ret.done

\* the 20th step of an episode of the default chain returned done, the 20
\* steps not being all the same action
C2_Witness ==
    /\ StepReturned
    /\ self.n = DefaultN
    /\ k = DefaultN
    /\ last.ret.done
    /\ self.state \notin {0, self.n - 1}

\* C3 as claimed: a ChainEnv step with action 1 returns position 0 and the
\* small reward and leaves the position at 0.
C3_RetreatPaysSmall ==
    (self.cls = "ChainEnv" /\ last.op = "step" /\ last.action = 1) =>
        /\ last.ret.outcome = "returned"
        /\ last.ret.obs = 0
        /\ last.ret.reward = self.small_reward
        /\ self.state = 0

\* C4 as claimed: a ChainEnv step with action 0 from a position p < n-1
\* returns position p+1 and reward 0.
C4_AdvancePaysZero ==
    (self.cls = "ChainEnv" /\ last.op = "step" /\ last.action = 0
        /\ last.pre_state < self.n - 1) =>
        /\ last.ret.outcome = "returned"
        /\ last.ret.obs = last.pre_state + 1
        /\ self.state = last.pre_state + 1
        /\ last.ret.reward = 0

\* C5 as claimed: a ChainEnv step with action 0 at position n-1 leaves the
\* position at n-1 and returns the large reward, each time it is taken.
C5_EndPaysLarge ==
    (self.cls = "ChainEnv" /\ last.op = "step" /\ last.action = 0
        /\ last.pre_state = self.n - 1) =>
        /\ last.ret.outcome = "returned"
        /\ last.ret.obs = self.n - 1
        /\ self.state = self.n - 1
        /\ last.ret.reward = self.large_reward

\* C6: reset, in any reachable state, returns 0 and leaves the environment
\* as a freshly constructed one of the same class and configuration
\* (position 0, step counter 0); a second reset changes nothing more.
C6_ResetRestoresInitial ==
    last.op = "reset" =>
        /\ last.ret.outcome = "returned"
        /\ last.ret.obs = 0
        /\ self.state = 0
        /\ self._counter = 0
        /\ self = ChainEnv_init(self.cls, config)
        /\ ChainEnv_reset(self) = [self |-> self, ret |-> last.ret]

\* reset was called in the middle of an episode, away from the origin
C6_Witness ==
    /\ last.op = "reset"
    /\ last.pre_state > 0
    /\ last.pre_counter > last.pre_state
    /\ last.pre_counter < self._horizon

\* reset was called after the episode had terminated
C6_WitnessAfterDone ==
    /\ last.op = "reset"
    /\ last.pre_counter >= self._horizon

\* C7: a step call whose action is outside {0,1} raises an error and leaves
\* position and step counter as they were: it consumes no step of the episode.
C7_InvalidActionRejected ==
    (last.op = "step" /\ last.action \notin {0, 1}) =>
        /\ last.ret.outcome \in {"AssertionError", "AttributeError"}
        /\ self.state = last.pre_state
        /\ self._counter = last.pre_counter

\* the membership check rejected an action in the middle of an episode
C7_Witness ==
    /\ last.op = "step"
    /\ last.action = 2
    /\ last.ret.outcome = "AssertionError"
    /\ self.state > 0
    /\ self._counter > self.state
    /\ k = self._counter

\* C8 as claimed: in every reachable state of ChainEnv a step call with an
\* action in {0,1} completes without error.
C8_ValidActionNeverRaises ==
    (self.cls = "ChainEnv" /\ last.op = "step" /\ last.action \in {0, 1}) =>
        last.ret.outcome = "returned"

\* C9 as claimed: after construction of ChainEnv the action space is {0,1}
\* and the observation space is 0 .. n-1.
C9_SpacesAfterConstruction ==
    (self.cls = "ChainEnv") =>
        /\ self.action_space # None
        /\ self.observation_space # None
        /\ Members(self.action_space) = {0, 1}
        /\ Members(self.observation_space) = 0..(self.n - 1)

\* C10 as claimed: in every reachable state 0 <= step counter <= horizon.
C10_CounterWithinHorizon ==
    self._counter >= 0 /\ self._counter <= self._horizon

\* C10 amended: the step counter is never negative, and it is at most the
\* horizon as long as no step call has returned after a step returned
\* done = true with no reset in between.
C10_CounterWithinHorizonUntilOverrun ==
    /\ self._counter >= 0
    /\ ~overrun => self._counter <= self._horizon

\* the counter stands at the horizon at the end of an episode
C10_Witness ==
    /\ StepReturned
    /\ ~overrun
    /\ ep_done
    /\ self._counter = self._horizon

C12_StepCountsOnce ==
    [][ /\ (last'.op = "step" /\ last'.ret.outcome = "returned")
               => self'._counter = self._counter + 1
        /\ self' # self => last'.op \in {"step", "reset"} ]_vars

\* a step at the end of a chain of several cells returned and was counted
C12_Witness ==
    /\ StepReturned
    /\ last.action = 0
    /\ self.n > 1
    /\ last.pre_state = self.n - 1
    /\ self._counter = last.pre_counter + 1

\* C17 as claimed: in the Exercise 1 cell as shipped, step returns reward 0
\* for every action and every position.
C17_TemplateRewardZero ==
    (self.cls = "ChainEnv" /\ last.op = "step" /\ last.action \in {0, 1}) =>
        /\ last.ret.outcome = "returned"
        /\ last.ret.reward = 0

\* C18: once a step has returned done = true, every later step that returns
\* also returns done = true until reset is called; the flag does not go back
\* to false without a reset.
C18_DoneStaysUntilReset ==
    [][ /\ (ep_done /\ last'.op = "step" /\ last'.ret.outcome = "returned")
               => last'.ret.done
        /\ (ep_done /\ ~ep_done') => last'.op = "reset" ]_vars

\* a step taken after termination returned done = true again
C18_Witness ==
    /\ StepReturned
    /\ overrun
    /\ last.ret.done
    /\ last.pre_counter > self._horizon

\* the step took the end-of-chain branch: action 0 at position n-1
EndOfChainStep ==
    StepReturned /\ last.action = 0 /\ last.pre_state = self.n - 1

C20_PositionAtMostSteps ==
    /\ self.state <= self._counter
    /\ self.state <= k
    /\ self.state = self.n - 1 => k >= self.n - 1

\* the end of a chain of several cells was reached in the fewest steps
C20_Witness ==
    /\ StepReturned
    /\ self.n > 1
    /\ self.state = self.n - 1
    /\ k = self.n - 1
    /\ self._counter = self.state

\* C21: step and reset leave n, small_reward, large_reward and _horizon as
\* construction set them (the value of env_config, or 20, 2 and 10 for a
\* missing key), and _horizon equals n in every reachable state.
C21_ConfigurationFixed ==
    /\ [](/\ self.n = (IF config.n = Missing THEN 20 ELSE config.n)
          /\ self.small_reward = (IF config.small = Missing THEN 2 ELSE config.small)
          /\ self.large_reward = (IF config.large = Missing THEN 10 ELSE config.large)
          /\ self._horizon = self.n)
    /\ [][ /\ self'.n = self.n
           /\ self'.small_reward = self.small_reward
           /\ self'.large_reward = self.large_reward
           /\ self'._horizon = self._horizon ]_vars

\* an environment of a configured chain length and default rewards has been
\* stepped to the end of an episode and past it
C21_Witness ==
    /\ StepReturned
    /\ overrun
    /\ config.n = MaxN
    /\ config.small = Missing
    /\ config.large # Missing

\* an environment constructed from an empty env_config has been reset in the
\* middle of an episode
C21_WitnessDefaults ==
    /\ last.op = "reset"
    /\ last.pre_counter > 0
    /\ config = [n |-> Missing, small |-> Missing, large |-> Missing]
    /\ self.n = 20

Ran(c) ==
    \E i, j \in 1..Len(Cells) : Cells[i] = c /\ Cells[j] = cell /\ i < j

\* the calls of one episode: start_episode, then get_action and log_returns
\* in turn, at least once, then end_episode
EpisodeProtocol(cs) ==
    /\ Len(cs) >= 4
    /\ Len(cs) % 2 = 0
    /\ cs[1] = "start_episode"
    /\ cs[Len(cs)] = "end_episode"
    /\ \A j \in 2..(Len(cs) - 1) :
           cs[j] = IF j % 2 = 0 THEN "get_action" ELSE "log_returns"

\* C15 as claimed: run_one_episode, once its cell has run, has called
\* start_episode once and first, then for each observation get_action followed
\* by one log_returns, and end_episode once and last.
C15_EpisodeProtocolFollowed ==
    Ran("def_run_one_episode") =>
        /\ "def_run_one_episode" \notin DOMAIN errors
        /\ EpisodeProtocol(calls)

\* the calls of the replay of a list of episodes
RECURSIVE ReplayCalls(_)
ReplayCalls(eps) ==
    IF eps = <<>> THEN <<>>
    ELSE LET steps_of_first ==
                 [j \in 1..(2 * Head(eps)) |->
                     IF j % 2 = 1 THEN "log_action" ELSE "log_returns"]
         IN  <<"start_episode">> \o steps_of_first \o <<"end_episode">>
                 \o ReplayCalls(Tail(eps))

\* C16 as claimed: the replay loop, once its cell has run, has made for every
\* logged episode one start_episode, then one log_action and one log_returns
\* per step, then one end_episode, and steps is bound to the total number of
\* steps replayed.
C16_ReplayProtocolFollowed ==
    Ran("replay") =>
        /\ "replay" \notin DOMAIN errors
        /\ "steps" \in defined
        /\ calls = ReplayCalls(episodes)

C22_WitnessAdvance ==
    /\ rollout.left
    /\ rollout.retreats = 0
    /\ rollout.state = 19
    /\ rollout.cumulative_reward = 10

====
